---- MODULE Spec2Model ----
(***************************************************************************)
(* Model of generate_and_upload_to_dropbox.py: main() runs the image       *)
(* fetch loop, build_presentation and upload_to_dropbox in sequence.       *)
(* Every call into requests, python-pptx or the file system is an input    *)
(* of the action that makes it: it either answers or raises.  The calls    *)
(* that can fail are the image GET and file write, the background draw,    *)
(* os.path.exists, add_picture, prs.save, reading OUT_FILE and the two     *)
(* POSTs; adding a text box and setting its text are taken to succeed.     *)
(*                                                                         *)
(* Text is modelled as TLA+ strings where only equality matters (titles,   *)
(* bullets, notes) and as sequences of one-character strings where the     *)
(* code looks inside it (the share link).  Non-ASCII characters of the     *)
(* slide table are written in ASCII ("-" for the dash, "->" for the        *)
(* arrow).                                                                 *)
(***************************************************************************)
EXTENDS Integers, Sequences, FiniteSets, TLC

\* ---------------------------------------------------------------- bounds
\* The first NTopics entries of IMAGE_QUERIES and of slides are modelled.
NTopics == 2
\* Number of runs of the program against the same remote store.
MaxRuns == 2
\* Longest bullet list of the descriptors build_presentation is tried on.
MaxBullets == 2

\* ------------------------------------------------------- optional values
None == [some |-> FALSE, val |-> <<>>]
Some(v) == [some |-> TRUE, val |-> v]

\* ------------------------------------------------------ module constants
OUT_FILE == "AI_in_Mobile_Phones_Droplet.pptx"
IMG_DIR == "ppt_images"
DEST_PATH == "/AI_in_Mobile_Phones_Droplet.pptx"
FOOTER_TEXT == "AI in Mobile Phones - Droplet theme"

\* IMAGE_QUERIES in insertion order: <<key, query>>.
IMAGE_QUERIES_ALL ==
  << <<"title", "smartphone,technology">>,
     <<"agenda", "icons,agenda">>,
     <<"what_is", "mobile,ai">>,
     <<"on_vs_cloud", "cloud,phone,diagram">>,
     <<"hardware", "chip,npu">>,
     <<"software", "tensorflow,code">>,
     <<"photo_voice", "camera,voice,wave">>,
     <<"personal_security", "face,unlock,ar">>,
     <<"workflow", "pipeline,workflow">>,
     <<"challenges", "warning,ethics">>,
     <<"future", "futuristic,phone">>,
     <<"references", "books,links">> >>

IMAGE_QUERIES == SubSeq(IMAGE_QUERIES_ALL, 1, NTopics)

TopicKeys == {IMAGE_QUERIES[i][1] : i \in 1..Len(IMAGE_QUERIES)}

\* The slides table.
slides_ALL ==
  << [title |-> "AI in Mobile Phones",
      bullets |-> <<"How on-device intelligence is changing mobile experiences">>,
      notes |-> "Introduce yourself and objectives.", image |-> "title"],
     [title |-> "Agenda",
      bullets |-> <<"What is mobile AI?", "On-device vs cloud", "Hardware & software",
                    "Use cases", "Developer workflow", "Challenges & ethics",
                    "Future trends", "Appendix & references">>,
      notes |-> "Walk through the agenda.", image |-> "agenda"],
     [title |-> "What is Mobile AI?",
      bullets |-> <<"ML models running on/for mobile devices",
                    "Goals: personalization, performance, privacy, context awareness",
                    "Constraints: power, memory, latency">>,
      notes |-> "Define mobile AI and constraints.", image |-> "what_is"],
     [title |-> "On-device vs Cloud AI",
      bullets |-> <<"On-device: low latency, privacy, offline capable",
                    "Cloud: heavy compute, aggregated analytics, higher latency",
                    "Hybrid: split execution, federated learning">>,
      notes |-> "Examples: wake word on-device vs heavy NLP in cloud.",
      image |-> "on_vs_cloud"],
     [title |-> "Enabling Hardware",
      bullets |-> <<"NPUs, GPUs, DSPs", "Memory & storage; sensors (camera, mic, IMU)",
                    "Sensor fusion & accelerators">>,
      notes |-> "Explain role of NPUs and sensors.", image |-> "hardware"],
     [title |-> "Enabling Software & Tooling",
      bullets |-> <<"Training: TensorFlow, PyTorch", "Edge runtimes: TFLite, Core ML, ONNX",
                    "Optimizations: quantization, pruning">>,
      notes |-> "Mention converters and quantization.", image |-> "software"],
     [title |-> "Key Use Cases - Photography & Voice",
      bullets |-> <<"Computational photography: HDR, Night Mode",
                    "Voice: wake words, on-device speech recognition">>,
      notes |-> "Vendor examples like Pixel and Apple.", image |-> "photo_voice"],
     [title |-> "Key Use Cases - Personalization, Security & AR",
      bullets |-> <<"Predictive text & recommendations", "Face unlock & anti-spoofing",
                    "AR overlays and scene understanding">>,
      notes |-> "Highlight privacy benefits.", image |-> "personal_security"],
     [title |-> "Developer Workflow",
      bullets |-> <<"Train in cloud -> optimize -> convert to TFLite/CoreML/ONNX",
                    "Integrate, test & profile on device, monitor & update">>,
      notes |-> "Profile for latency, memory and power.", image |-> "workflow"],
     [title |-> "Challenges & Ethics",
      bullets |-> <<"Battery & thermal limits", "Model updates & compatibility",
                    "Privacy, bias & adversarial attacks">>,
      notes |-> "Mitigations: differential privacy, audits.", image |-> "challenges"],
     [title |-> "Future Trends",
      bullets |-> <<"Stronger on-device models as NPUs scale",
                    "Continuous personalized on-device learning",
                    "Multimodal AI and privacy-first architectures">>,
      notes |-> "Suggest student project ideas.", image |-> "future"],
     [title |-> "Appendix - References & Glossary",
      bullets |-> <<"TensorFlow Lite: https://www.tensorflow.org/lite",
                    "Core ML: https://developer.apple.com/documentation/coreml",
                    "ONNX Runtime: https://onnxruntime.ai",
                    "Paper: Federated Learning (McMahan et al.)">>,
      notes |-> "References and glossary.", image |-> "references"] >>

slides == SubSeq(slides_ALL, 1, NTopics)


\* ------------------------------------------------------------ text tools
\* Text the code looks inside is a sequence of one-character strings.
Contains(s, sub) ==
  \E i \in 1..(Len(s) - Len(sub) + 1) : SubSeq(s, i, i + Len(sub) - 1) = sub

EndsWith(s, suf) ==
  Len(s) >= Len(suf) /\ SubSeq(s, Len(s) - Len(suf) + 1, Len(s)) = suf

\* str.replace(old, new): every non-overlapping occurrence, left to right.
RECURSIVE Replace(_, _, _)
Replace(s, old, new) ==
  IF Len(s) < Len(old) THEN s
  ELSE IF SubSeq(s, 1, Len(old)) = old
       THEN new \o Replace(SubSeq(s, Len(old) + 1, Len(s)), old, new)
       ELSE <<s[1]>> \o Replace(Tail(s), old, new)

DL0 == <<"d", "l", "=", "0">>
DL1 == <<"d", "l", "=", "1">>
Q_DL0 == <<"?">> \o DL0
Q_DL1 == <<"?">> \o DL1

\* Python truthiness of an optional string.
Truthy(x) == x.some /\ x.val # <<>>

\* Links the share endpoint may put in the url field ("u" stands for the
\* scheme, host and path of the link).
PreviewLink == <<"u">> \o Q_DL0
ParamLink == <<"u", "?", "k">> \o <<"&">> \o DL0
DirectLink == <<"u">> \o Q_DL1

\* r2.json().get("url"): the url field, or None when the body has none.
ShareBodies ==
  {Some(PreviewLink), Some(ParamLink), Some(DirectLink), None}

\* Lines 137-138: the rewrite of the returned link.
NormaliseLink(link) ==
  IF Truthy(link) /\ Contains(link.val, DL0)
  THEN Some(Replace(link.val, Q_DL0, Q_DL1))
  ELSE link

\* --------------------------------------------------------- dictionaries
EmptyDict == [k \in {} |-> None]

\* Variant: an entry is stored only for a path (if path: d[k] = path).
DictSetIfPath(d, k, v) ==
  IF v = None THEN d
  ELSE [x \in (DOMAIN d) \cup {k} |-> IF x = k THEN v ELSE d[x]]

\* d[k] = v
DictSet(d, k, v) == [x \in (DOMAIN d) \cup {k} |-> IF x = k THEN v ELSE d[x]]

\* d.get(k)
DictGet(d, k) == IF k \in DOMAIN d THEN d[k] ELSE None

\* ------------------------------------------------------------ HTTP
SuccessStatus == {200, 201}

\* Variant: the status is not looked at.
StatusAlwaysOk(status) == TRUE

\* Line 125 and line 134: the status test.
StatusOk(status) == status \in SuccessStatus

\* What requests.post can do: answer with a status, or raise.
UploadOutcomes == {[raised |-> FALSE, status |-> st] : st \in {200, 201, 401}}
                    \cup {[raised |-> TRUE, status |-> 0]}

ShareOutcomes ==
  {[raised |-> FALSE, status |-> st, url |-> b] : st \in {200, 201}, b \in ShareBodies}
    \cup {[raised |-> FALSE, status |-> 409, url |-> None],
          [raised |-> TRUE, status |-> 0, url |-> None]}

\* Variant: the upload asks for add mode with autorename.
UploadArgAutorename(dest_path) ==
  [path |-> dest_path, mode |-> "add", autorename |-> TRUE, mute |-> FALSE]

\* Line 119: the Dropbox-API-Arg header of the upload request.
UploadArg(dest_path) ==
  [path |-> dest_path, mode |-> "overwrite", autorename |-> FALSE, mute |-> FALSE]

\* The remote store is a set of files [name, copy, content]; copy 0 is the
\* file at the requested path, copy n > 0 a renamed copy "name (n)".
\* An accepted upload in overwrite mode replaces the file at the path; in
\* add mode it keeps an existing file and, with autorename, stores the
\* upload under a fresh name.
StoreUpload(store, arg, data) ==
  LET same == {f \in store : f.name = arg.path}
      fresh == [name |-> arg.path, copy |-> 0, content |-> data]
  IN  IF arg.mode = "overwrite"
      THEN {f \in store : ~(f.name = arg.path /\ f.copy = 0)} \cup {fresh}
      ELSE IF same = {} THEN store \cup {fresh}
      ELSE IF arg.autorename
           THEN store \cup {[fresh EXCEPT !.copy = Cardinality(same)]}
           ELSE store

\* ------------------------------------------------------- image fetching
FetchOutcomes == {"ok", "network_error", "http_error", "write_error"}

\* download_placeholder(name, query): the path on success, None after the
\* except branch.  `outcome` is what the GET and the file write did.
download_placeholder(name, outcome) ==
  IF outcome = "ok" THEN Some(<<IMG_DIR, name, ".jpg">>) ELSE None

\* ----------------------------------------------------------- the slides
\* A fresh text box holds one empty paragraph.
EmptyFrame == <<"">>

\* Lines 93-98: the first bullet goes into paragraph 0, every later one
\* into an added paragraph.
RECURSIVE FillBody(_, _, _)
FillBody(paras, first, bullets) ==
  IF bullets = <<>> THEN paras
  ELSE IF first
       THEN FillBody([paras EXCEPT ![1] = Head(bullets)], FALSE, Tail(bullets))
       ELSE FillBody(Append(paras, Head(bullets)), FALSE, Tail(bullets))

\* Variant: every bullet, the first included, goes into an added paragraph.
BodyParagraphsAllAdded(bullets) == EmptyFrame \o bullets

BodyParagraphs(bullets) == FillBody(EmptyFrame, TRUE, bullets)

\* Lines 84-86: tf.clear() leaves one paragraph, which takes the title.
TitleParagraphs(title) == [EmptyFrame EXCEPT ![1] = title]

\* Lines 101-106: the picture of the slide.  `exists` is os.path.exists(ip),
\* `picOk` whether add_picture returned.
PictureOf(ip, exists, picOk) ==
  IF Truthy(ip) /\ exists /\ picOk THEN ip ELSE None

PictureFailed(ip, exists, picOk) == Truthy(ip) /\ exists /\ ~picOk

\* Lines 72-110: one slide of the deck.  `bgOk` says that the whole
\* background block (lines 75-78) ran without raising.
MakeSlide(s, image_paths, bgOk, exists, picOk) ==
  [background |-> bgOk,
   title |-> TitleParagraphs(s.title),
   body |-> BodyParagraphs(s.bullets),
   picture |-> PictureOf(DictGet(image_paths, s.image), exists, picOk),
   footer |-> Some(FOOTER_TEXT),
   notes |-> Some(s.notes)]

\* Variant: the save is wrapped in try/except and its failure swallowed.
SaveSwallowed(saveOk) == FALSE

\* Line 111 sits in no try block: a failing save leaves build_presentation
\* by exception.
SaveRaises(saveOk) == ~saveOk


\* ---------------------------------------------------------------- state
VARIABLES
  pc,           \* where main() is: idle, fetch, build, slides, upload_read,
                \* upload_post, share_post, final, done, crashed
  run,          \* number of the current run of the program
  tbl,          \* the slide table build_presentation iterates
  fi,           \* position of the for loop over IMAGE_QUERIES.items()
  image_paths,  \* main's image_paths dict
  gets,         \* per topic key, the GETs issued in this run
  deck,         \* prs.slides
  faults,       \* per built slide, what failed while it was built
  saved,        \* what prs.save did: none, ok, failed
  outFile,      \* content of OUT_FILE on disk
  data,         \* the bytes upload_to_dropbox read
  posts,        \* POSTs sent in this run: [upload, share]
  upOutcome,    \* what the upload POST did
  shareOutcome, \* what the share-link POST did
  link,         \* value upload_to_dropbox returned
  buildResult,  \* none, returned, raised
  upResult,     \* none, returned, raised
  remote,       \* files of the remote store
  log           \* lines printed in this run: <<prefix, message>>

vars == <<pc, run, tbl, fi, image_paths, gets, deck, faults, saved, outFile, data, posts,
          upOutcome, shareOutcome, link, buildResult, upResult, remote, log>>

buildVars == <<deck, faults, saved, buildResult>>
uploadVars == <<data, posts, upOutcome, shareOutcome, link, upResult>>

NoOutcome == [raised |-> FALSE, status |-> 0]

Logged(prefix, msg) == Append(log, <<prefix, msg>>)

\* State of a process that has not started its work: the fetch loop's
\* part, and the rest.
FreshFetch ==
  /\ fi = 1
  /\ image_paths = EmptyDict
  /\ gets = [k \in TopicKeys |-> 0]

FreshRest ==
  /\ deck = <<>>
  /\ faults = <<>>
  /\ saved = "none"
  /\ data = None
  /\ posts = [upload |-> 0, share |-> 0]
  /\ upOutcome = NoOutcome
  /\ shareOutcome = NoOutcome
  /\ link = None
  /\ buildResult = "none"
  /\ upResult = "none"
  /\ log = <<>>

Init ==
  /\ pc = "idle"
  /\ run = 0
  /\ tbl = slides
  /\ outFile = None
  /\ remote = {}
  /\ FreshFetch
  /\ FreshRest

\* ---------------------------------------------------------------- main
\* Lines 147-151: a run of the program starts.
Start ==
  /\ pc \in {"idle", "done", "crashed"}
  /\ run < MaxRuns
  /\ run' = run + 1
  /\ pc' = "fetch"
  /\ fi' = 1
  /\ image_paths' = EmptyDict
  /\ gets' = [k \in TopicKeys |-> 0]
  /\ deck' = <<>>
  /\ faults' = <<>>
  /\ saved' = "none"
  /\ data' = None
  /\ posts' = [upload |-> 0, share |-> 0]
  /\ upOutcome' = NoOutcome
  /\ shareOutcome' = NoOutcome
  /\ link' = None
  /\ buildResult' = "none"
  /\ upResult' = "none"
  /\ log' = <<>>
  /\ UNCHANGED <<tbl, outFile, remote>>

\* Variant: the loop may be left after its first iteration.
LoopDoneEarly(i) == i > 1

\* Line 152: the for loop has run out of items.
LoopDone(i) == i > Len(IMAGE_QUERIES)

\* Lines 152-153 with 39-50: one iteration of the fetch loop.
FetchOne ==
  /\ pc = "fetch"
  /\ fi <= Len(IMAGE_QUERIES)
  /\ \E outcome \in FetchOutcomes :
       LET k == IMAGE_QUERIES[fi][1]
           path == download_placeholder(k, outcome)
       IN  /\ gets' = [gets EXCEPT ![k] = @ + 1]
           /\ image_paths' = DictSet(image_paths, k, path)
           /\ log' = IF path = None THEN Logged("[!]", "image download failed") ELSE log
  /\ fi' = fi + 1
  /\ UNCHANGED <<pc, run, tbl, outFile, remote, buildVars, uploadVars>>

\* Lines 154-155: the loop is over, build_presentation is called.
FetchEnd ==
  /\ pc = "fetch"
  /\ LoopDone(fi)
  /\ pc' = "build"
  /\ log' = Logged("", "Building presentation...")
  /\ UNCHANGED <<run, tbl, fi, image_paths, gets, outFile, remote, buildVars, uploadVars>>

\* Lines 68-70: a new, empty presentation.
BuildBegin ==
  /\ pc = "build"
  /\ pc' = "slides"
  /\ deck' = <<>>
  /\ faults' = <<>>
  /\ UNCHANGED <<run, tbl, fi, image_paths, gets, outFile, remote, saved, buildResult,
                 uploadVars, log>>

\* Lines 71-110: one iteration of the loop over slides.
BuildSlide ==
  /\ pc = "slides"
  /\ Len(deck) < Len(tbl)
  /\ \E bgOk \in BOOLEAN, exists \in BOOLEAN, picOk \in BOOLEAN :
       LET s == tbl[Len(deck) + 1]
           ip == DictGet(image_paths, s.image)
       IN  /\ deck' = Append(deck, MakeSlide(s, image_paths, bgOk, exists, picOk))
           /\ faults' = Append(faults, [background |-> ~bgOk,
                                        picture |-> PictureFailed(ip, exists, picOk)])
           /\ log' = IF PictureFailed(ip, exists, picOk)
                     THEN Logged("[!]", "insert image failed") ELSE log
  /\ UNCHANGED <<pc, run, tbl, fi, image_paths, gets, outFile, remote, saved,
                 buildResult, uploadVars>>

\* Lines 111-112, then 156-157: the deck is saved; main goes on to the upload.
Save ==
  /\ pc = "slides"
  /\ Len(deck) = Len(tbl)
  /\ \E saveOk \in BOOLEAN :
       /\ saved' = IF saveOk THEN "ok" ELSE "failed"
       /\ outFile' = IF saveOk THEN Some([run |-> run, slides |-> Len(deck)]) ELSE outFile
       /\ IF SaveRaises(saveOk)
          THEN /\ buildResult' = "raised"
               /\ pc' = "crashed"
               /\ UNCHANGED log
          ELSE /\ buildResult' = "returned"
               /\ log' = Logged("[+]", "Saved presentation") \o <<<<"", "Uploading to Dropbox...">>>>
               /\ pc' = "upload_read"
  /\ UNCHANGED <<run, tbl, fi, image_paths, gets, deck, faults, remote, uploadVars>>

\* Lines 122-123: upload_to_dropbox reads the local file.
UploadRead ==
  /\ pc = "upload_read"
  /\ \E readOk \in BOOLEAN :
       IF readOk
       THEN /\ data' = outFile
            /\ pc' = "upload_post"
            /\ UNCHANGED upResult
       ELSE /\ upResult' = "raised"
            /\ pc' = "crashed"
            /\ UNCHANGED data
  /\ UNCHANGED <<run, tbl, fi, image_paths, gets, outFile, remote, buildVars, posts,
                 upOutcome, shareOutcome, link, log>>

\* Lines 124-128: the upload POST and the test of its status.
UploadPost ==
  /\ pc = "upload_post"
  /\ \E o \in UploadOutcomes :
       /\ upOutcome' = o
       /\ posts' = [posts EXCEPT !.upload = @ + 1]
       /\ IF o.raised
          THEN /\ upResult' = "raised"
               /\ pc' = "crashed"
               /\ UNCHANGED <<link, remote, log>>
          ELSE /\ remote' = IF o.status \in SuccessStatus
                            THEN StoreUpload(remote, UploadArg(DEST_PATH), data.val)
                            ELSE remote
               /\ IF ~StatusOk(o.status)
                  THEN /\ log' = Logged("[!]", "Dropbox upload failed")
                       /\ link' = None
                       /\ upResult' = "returned"
                       /\ pc' = "final"
                  ELSE /\ log' = Logged("[+]", "Uploaded to Dropbox")
                       /\ pc' = "share_post"
                       /\ UNCHANGED <<link, upResult>>
  /\ UNCHANGED <<run, tbl, fi, image_paths, gets, outFile, buildVars, data, shareOutcome>>

\* Lines 130-144: the share-link POST and the link it yields.
SharePost ==
  /\ pc = "share_post"
  /\ \E o \in ShareOutcomes :
       /\ shareOutcome' = [raised |-> o.raised, status |-> o.status]
       /\ posts' = [posts EXCEPT !.share = @ + 1]
       /\ IF o.raised
          THEN /\ upResult' = "raised"
               /\ pc' = "crashed"
               /\ UNCHANGED <<link, log>>
          ELSE /\ upResult' = "returned"
               /\ pc' = "final"
               /\ IF StatusOk(o.status)
                  THEN /\ link' = NormaliseLink(o.url)
                       /\ log' = Logged("[+]", "Shareable link")
                  ELSE /\ link' = None
                       /\ log' = Logged("[!]", "create_shared_link failed")
  /\ UNCHANGED <<run, tbl, fi, image_paths, gets, outFile, remote, buildVars, data,
                 upOutcome>>

\* Lines 158-161: the final message.
Final ==
  /\ pc = "final"
  /\ pc' = "done"
  /\ log' = IF Truthy(link) THEN Logged("", "Done") ELSE Logged("", "Upload completed with issues")
  /\ UNCHANGED <<run, tbl, fi, image_paths, gets, outFile, remote, buildVars, uploadVars>>

Next ==
  \/ Start
  \/ FetchOne
  \/ FetchEnd
  \/ BuildBegin
  \/ BuildSlide
  \/ Save
  \/ UploadRead
  \/ UploadPost
  \/ SharePost
  \/ Final

Spec == Init /\ [][Next]_vars


\* ------------------------------------------- build_presentation on its own
\* build_presentation(image_paths) run on small slide tables and on every
\* image-path dict over the topic keys.

BulletPool == <<"b1", "b2", "b3", "b4", "b5", "b6">>
TitlePool == <<"T0", "T1", "T2", "T3", "T4", "T5", "T6">>
UnlistedKey == "unlisted"

\* Descriptor n has n bullets; its image key walks through the topic keys
\* and a key that IMAGE_QUERIES does not list.
ImageKeyOf(n) ==
  LET i == (n % (NTopics + 1)) + 1
  IN  IF i > NTopics THEN UnlistedKey ELSE IMAGE_QUERIES[i][1]

Descriptor(n) ==
  [title |-> TitlePool[n + 1], bullets |-> SubSeq(BulletPool, 1, n),
   notes |-> "notes", image |-> ImageKeyOf(n)]

Descriptors == {Descriptor(n) : n \in 0..MaxBullets}

Tables == UNION {[1..len -> Descriptors] : len \in 1..NTopics}

\* Every dict whose keys are topic keys and whose values are a path or None.
ImagePathDicts ==
  UNION {[ks -> {None} \cup {download_placeholder(k, "ok") : k \in ks}] :
           ks \in SUBSET TopicKeys}

InitBuild ==
  /\ pc = "build"
  /\ run = 1
  /\ tbl \in Tables
  /\ outFile = None
  /\ remote = {}
  /\ fi = 1
  /\ gets = [k \in TopicKeys |-> 0]
  /\ image_paths \in ImagePathDicts
  /\ FreshRest

NextBuild ==
  \/ BuildBegin
  \/ BuildSlide
  \/ Save

SpecBuild == InitBuild /\ [][NextBuild]_vars


\* =============================================================== claims

\* Number of printed lines that are in the set `entries`.
LogCount(entries) == Cardinality({i \in 1..Len(log) : log[i] \in entries})

\* The lines the program prints, by kind (lines 49, 106, 126, 143, 159, 161).
FinalMessages == {<<"", "Done">>, <<"", "Upload completed with issues">>}
FetchWarnings == {<<"[!]", "image download failed">>}
BuildWarnings == {<<"[!]", "insert image failed">>}
UploadErrors ==
  {<<"[!]", "Dropbox upload failed">>, <<"[!]", "create_shared_link failed">>}
Warnings == FetchWarnings \cup BuildWarnings \cup UploadErrors

\* A request that did not succeed: it raised, or answered a non-success status.
RequestFailed(o) == o.raised \/ (o.status # 0 /\ o.status \notin SuccessStatus)
RequestSucceeded(o) == ~o.raised /\ o.status \in SuccessStatus

\* C1: whatever the external operations do, a run of main() ends normally
\* with exactly one of the two final messages printed; no stage ends the
\* run with an unhandled exception.
C1_RunAlwaysCompletes ==
  /\ pc # "crashed"
  /\ pc = "done" => LogCount(FinalMessages) = 1

\* C2: when the upload POST or the share-link POST fails, by a non-success
\* status or by the request itself raising, upload_to_dropbox returns a
\* null link, has logged an error, and raises nothing.
C2_FailureYieldsNullLink ==
  (RequestFailed(upOutcome) \/ RequestFailed(shareOutcome))
    => /\ upResult = "returned"
       /\ link = None
       /\ LogCount(UploadErrors) >= 1

\* C3: when both POSTs answer a success status, upload_to_dropbox returns
\* a non-null link that ends in dl=1 and contains no dl=0.
C3_DirectDownloadLink ==
  (upResult = "returned" /\ RequestSucceeded(upOutcome) /\ RequestSucceeded(shareOutcome))
    => /\ link.some
       /\ EndsWith(link.val, DL1)
       /\ ~Contains(link.val, DL0)

\* The deck has one slide per table entry, in table order, each with the
\* entry's title as its title paragraph.
OneSlidePerEntry ==
  /\ Len(deck) = Len(tbl)
  /\ \A i \in 1..Len(deck) : deck[i].title = <<tbl[i].title>>

\* C4 as stated: after build_presentation completes the deck has one slide
\* per table entry, in order, with the title, and the body paragraphs are
\* exactly the bullets, in number and order.
C4_BodyEqualsBullets ==
  buildResult = "returned"
    => /\ OneSlidePerEntry
       /\ \A i \in 1..Len(deck) : deck[i].body = tbl[i].bullets

\* C4 amended: as C4, but the body of an entry without bullets is a single
\* empty paragraph; with at least one bullet it is exactly the bullets.
C4_BodyEqualsBulletsOrOneEmpty ==
  buildResult = "returned"
    => /\ OneSlidePerEntry
       /\ \A i \in 1..Len(deck) :
            deck[i].body = IF tbl[i].bullets = <<>> THEN <<"">> ELSE tbl[i].bullets

\* build_presentation completed on a table with an entry without bullets
\* and one with several, after a background and an image insert failed.
C4_Witness ==
  /\ buildResult = "returned"
  /\ \E i \in 1..Len(tbl) : tbl[i].bullets = <<>>
  /\ \E i \in 1..Len(tbl) : Len(tbl[i].bullets) >= 2
  /\ \E i \in 1..Len(faults) : faults[i].background
  /\ \E i \in 1..Len(faults) : faults[i].picture

\* C5: a slide whose image is unavailable or whose background or image
\* insert failed is still added with title, bullets, footer and notes, the
\* later slides are built, and every background or insert failure is logged.
C5_DegradedSlideLogged ==
  /\ Len(deck) = Len(faults)
  /\ \A i \in 1..Len(deck) :
       /\ deck[i].title = <<tbl[i].title>>
       /\ tbl[i].bullets # <<>> => deck[i].body = tbl[i].bullets
       /\ deck[i].footer = Some(FOOTER_TEXT)
       /\ deck[i].notes = Some(tbl[i].notes)
       /\ deck[i].background = ~faults[i].background
  /\ buildResult = "returned" => Len(deck) = Len(tbl)
  /\ LogCount(Warnings) >= Cardinality({i \in 1..Len(faults) : faults[i].background})
                            + Cardinality({i \in 1..Len(faults) : faults[i].picture})

\* The file the current run saves and uploads.
ThisRunsFile == [name |-> DEST_PATH, copy |-> 0,
                 content |-> [run |-> run, slides |-> Len(tbl)]]

\* C6 as stated: after any completed run the remote store holds exactly one file, at
\* the destination path, whose content is that of the latest run.
C6_ExactlyOneLatestFile ==
  (run >= 1 /\ pc = "done") => remote = {ThisRunsFile}

\* C6 amended: the remote store never holds more than one file, it is at
\* the destination path and no renamed copy, and once a run's upload has
\* been accepted the file's content is that run's.
C6_AtMostOneFileNoDuplicate ==
  /\ Cardinality(remote) <= 1
  /\ \A f \in remote : f.name = DEST_PATH /\ f.copy = 0 /\ f.content.run <= run
  /\ RequestSucceeded(upOutcome) => remote = {ThisRunsFile}

\* The second run's upload was accepted and replaced the first run's file.
C6_Witness ==
  /\ run = 2
  /\ pc = "done"
  /\ RequestSucceeded(upOutcome)
  /\ remote = {ThisRunsFile}

Rank(p) ==
  CASE p = "idle" -> 0
    [] p = "fetch" -> 1
    [] p \in {"build", "slides"} -> 2
    [] p \in {"upload_read", "upload_post", "share_post"} -> 3
    [] OTHER -> 4

AllFetched == \A k \in TopicKeys : gets[k] >= 1 /\ k \in DOMAIN image_paths

\* C7: in every run the stages go Fetcher, Builder, Uploader and none is
\* re-entered: every key has been fetched before the first slide is built,
\* and the deck has been saved to the output file before the upload is sent.
C7_StagesInOrder ==
  /\ [](/\ (Rank(pc) = 2 \/ deck # <<>>) => AllFetched
        /\ Rank(pc) = 3 \/ posts.upload > 0
             => /\ AllFetched
                /\ Len(deck) = Len(tbl)
                /\ saved = "ok"
                /\ outFile = Some([run |-> run, slides |-> Len(tbl)]))
  /\ [][run' = run => /\ Rank(pc') >= Rank(pc)
                      /\ Rank(pc) >= 2 => gets' = gets /\ image_paths' = image_paths
                      /\ Rank(pc) >= 3 => deck' = deck /\ outFile' = outFile]_vars

\* A run went through all three stages.
C7_Witness == pc = "done" /\ posts.share = 1 /\ Len(deck) = Len(tbl)

FetchedKeys == {IMAGE_QUERIES[i][1] : i \in 1..(fi - 1)}

\* C8: the fetch stage issues exactly one GET per topic key, a failure
\* gives None for that key only and the loop goes on, and when the stage
\* ends the dict has an entry, a path or None, for every topic key.
C8_OneGetPerKey ==
  /\ \A k \in TopicKeys : gets[k] = IF k \in FetchedKeys THEN 1 ELSE 0
  /\ DOMAIN image_paths = FetchedKeys
  /\ \A k \in DOMAIN image_paths : image_paths[k] \in {None, Some(<<IMG_DIR, k, ".jpg">>)}
  /\ Cardinality({k \in DOMAIN image_paths : image_paths[k] = None})
       = LogCount(FetchWarnings)
  /\ Rank(pc) >= 2 => FetchedKeys = TopicKeys

\* The fetch stage ended; the first key failed and a later one succeeded.
C8_Witness ==
  /\ pc = "build"
  /\ image_paths[IMAGE_QUERIES[1][1]] = None
  /\ \E k \in TopicKeys : image_paths[k] # None

\* C9: in a call of upload_to_dropbox at most one upload POST and one
\* share-link POST are sent, the share-link POST only after the upload
\* answered a success status; after a non-success answer no share-link
\* request is sent and the result is no link.
C9_ShareOnlyAfterUpload ==
  /\ posts.upload <= 1
  /\ posts.share <= 1
  /\ posts.share > 0 => posts.upload = 1 /\ RequestSucceeded(upOutcome)
  /\ (~upOutcome.raised /\ upOutcome.status # 0 /\ upOutcome.status \notin SuccessStatus)
       => posts.share = 0 /\ upResult = "returned" /\ link = None

\* The upload answered a success status and the share-link POST was sent.
C9_Witness == posts.share = 1 /\ upOutcome.status = 201

\* C10: when prs.save fails, build_presentation leaves by exception and in
\* that run no upload and no share-link request is sent.
C10_SaveFailureStopsRun ==
  saved = "failed"
    => /\ buildResult = "raised"
       /\ pc = "crashed"
       /\ posts = [upload |-> 0, share |-> 0]
       /\ upResult = "none"

\* A run in which prs.save failed.
C10_Witness == saved = "failed" /\ Len(deck) = Len(tbl) /\ run >= 1

====
